---- MODULE Spec2Model ----
(***************************************************************************)
(* Graph reconciliation engine of the VS Code shim                         *)
(* (webapp/src/shell/vscode-electron-shim.ts): the module-level state, the *)
(* polling loop (loadAndPushGraph), local edits (applyGraphDelta),         *)
(* saveNodePositions and undo/redo, each asynchronous handler cut at its   *)
(* await points.                                                           *)
(***************************************************************************)
EXTENDS Integers, Sequences, FiniteSets, TLC

(***************************************************************************)
(* Bounds of the model.                                                    *)
(***************************************************************************)
\* Longest file listing a poll fetches.
MaxFiles == 2
\* Handler calls (subscriptions, interval ticks, local edits, position saves,
\* undos, redos) per behaviour.
MaxOps == 4
\* Cooldown timers (setTimeout of performUndo/performRedo) pending at once.
MaxTimers == 2
\* Activations of loadAndPushGraph suspended at once.
MaxPolls == 2
\* Handler calls per behaviour that starts with the undo stack near capacity.
MaxStackOps == 3

(***************************************************************************)
(* Program constants.                                                      *)
(***************************************************************************)
MAX_UNDO == 30
\* f.content.slice(0, 200) of the fingerprint.
FINGERPRINT_PREFIX == 200

(***************************************************************************)
(* Data model: paths, contents, positions, nodes, graphs, deltas.          *)
(***************************************************************************)
\* Object.keys order of a node mapping, taken as one fixed order of the paths.
PathOrder == <<"/a.md", "/b.md">>
Paths == {PathOrder[i] : i \in 1..Len(PathOrder)}
Contents == {"x", "xy"}
\* fp-ts Option: O.none is <<>>, O.some(v) is <<v>>.
None == <<>>
Some(v) == <<v>>
IsSome(o) == o # None
Positions == {[x |-> 10, y |-> 20]}
\* null of `Graph | null`.
Null == <<>>
\* null of the callback cell and of the interval id.
NoRef == "null"

MkNode(id, content, position) ==
    [absoluteFilePathIsID |-> id, content |-> content, outgoingEdges |-> {},
     nodeUIMetadata |-> [position |-> position]]

createEmptyGraph == [nodes |-> <<>>]

UpsertNode(node) == [type |-> "UpsertNode", nodeToUpsert |-> node]
DeleteNode(id) == [type |-> "DeleteNode", nodeId |-> id]

NodeIds(graph) == DOMAIN graph.nodes
\* Object.keys(graph.nodes) as a sequence.
Keys(graph) == SelectSeq(PathOrder, LAMBDA p : p \in NodeIds(graph))

(***************************************************************************)
(* Delta Applier (spec 4.3): operations applied strictly in order;         *)
(* UpsertNode is create-or-replace, DeleteNode of an absent id a no-op.    *)
(***************************************************************************)
\* Mutant: an upsert with no position keeps the position of the stored node.
ApplyOpMergingPosition(graph, op) ==
    IF op.type = "UpsertNode"
    THEN LET id == op.nodeToUpsert.absoluteFilePathIsID
             kept == IF id \in NodeIds(graph) /\ op.nodeToUpsert.nodeUIMetadata.position = <<>>
                     THEN [op.nodeToUpsert EXCEPT !.nodeUIMetadata.position =
                              graph.nodes[id].nodeUIMetadata.position]
                     ELSE op.nodeToUpsert
         IN [nodes |-> [i \in NodeIds(graph) \cup {id} |-> IF i = id THEN kept ELSE graph.nodes[i]]]
    ELSE [nodes |-> [id \in NodeIds(graph) \ {op.nodeId} |-> graph.nodes[id]]]

\* Mutant: a delete of an absent id fails and leaves no graph.
ApplyOpDeleteAbsentFails(graph, op) ==
    IF op.type = "UpsertNode"
    THEN [nodes |-> [id \in NodeIds(graph) \cup {op.nodeToUpsert.absoluteFilePathIsID} |->
                        IF id = op.nodeToUpsert.absoluteFilePathIsID
                        THEN op.nodeToUpsert ELSE graph.nodes[id]]]
    ELSE IF op.nodeId \in NodeIds(graph)
         THEN [nodes |-> [id \in NodeIds(graph) \ {op.nodeId} |-> graph.nodes[id]]]
         ELSE [nodes |-> <<>>]

ApplyOp(graph, op) ==
    IF op.type = "UpsertNode"
    THEN [nodes |-> [id \in NodeIds(graph) \cup {op.nodeToUpsert.absoluteFilePathIsID} |->
                        IF id = op.nodeToUpsert.absoluteFilePathIsID
                        THEN op.nodeToUpsert ELSE graph.nodes[id]]]
    ELSE [nodes |-> [id \in NodeIds(graph) \ {op.nodeId} |-> graph.nodes[id]]]

\* Mutant: the operations of a call are applied last to first.
RECURSIVE applyGraphDeltaReversed(_, _)
applyGraphDeltaReversed(graph, delta) ==
    IF delta = <<>> THEN graph
    ELSE ApplyOp(applyGraphDeltaReversed(graph, Tail(delta)), Head(delta))

RECURSIVE applyGraphDeltaToGraph(_, _)
applyGraphDeltaToGraph(graph, delta) ==
    IF delta = <<>> THEN graph
    ELSE applyGraphDeltaToGraph(ApplyOp(graph, Head(delta)), Tail(delta))

\* mapNewGraphToDelta: one UpsertNode per node of the graph.
mapNewGraphToDelta(graph) ==
    LET ks == Keys(graph)
    IN [i \in 1..Len(ks) |-> UpsertNode(graph.nodes[ks[i]])]

(***************************************************************************)
(* Change detector: the fingerprint of a listing, in its given order.      *)
(***************************************************************************)
Min(a, b) == IF a < b THEN a ELSE b
\* s.slice(0, n)
Slice(s, n) == SubSeq(s, 1, Min(n, Len(s)))

\* Mutant: the fingerprint leaves the content out.
FileFingerprintPathOnly(f) == f.path

FileFingerprint(f) ==
    f.path \o ":" \o ToString(Len(f.content)) \o ":" \o Slice(f.content, FINGERPRINT_PREFIX)

\* parts.join('|')
RECURSIVE Join(_)
Join(parts) ==
    IF parts = <<>> THEN ""
    ELSE IF Len(parts) = 1 THEN parts[1]
    ELSE parts[1] \o "|" \o Join(Tail(parts))

Fingerprint(files) == Join([i \in 1..Len(files) |-> FileFingerprint(files[i])])

(***************************************************************************)
(* Incremental graph builder (spec 4.2): one 'Added' event per file, in    *)
(* listing order, each folded into the running graph.                      *)
(***************************************************************************)
\* The name a [[link]] uses for a node: the file name without "/" and ".md".
LinkName(id) == SubSeq(id, 2, Len(id) - 3)
\* The text holds the pattern.
Contains(text, pattern) ==
    \E i \in 1..(Len(text) - Len(pattern) + 1) : SubSeq(text, i, i + Len(pattern) - 1) = pattern
\* The references of the content that resolve to a node of the graph so far.
ResolvedReferences(content, graph) ==
    {id \in NodeIds(graph) : Contains(content, "[[" \o LinkName(id) \o "]]")}

\* The delta of one event: the node of the file, with no position and with
\* an edge to every node already in the graph that its content references.
addNodeToGraphWithEdgeHealingFromFSEvent(fsEvent, graph) ==
    <<UpsertNode([MkNode(fsEvent.absolutePath, fsEvent.content, None) EXCEPT
                    !.outgoingEdges = ResolvedReferences(fsEvent.content, graph)])>>

\* Mutant: every event is handed the empty graph, not the graph so far.
RECURSIVE BuildFromEmptyEachEvent(_, _, _)
BuildFromEmptyEachEvent(files, graph, allDeltas) ==
    IF files = <<>> THEN [graph |-> graph, allDeltas |-> allDeltas]
    ELSE LET fsEvent == [absolutePath |-> Head(files).path,
                         content |-> Head(files).content, eventType |-> "Added"]
             delta == addNodeToGraphWithEdgeHealingFromFSEvent(fsEvent, createEmptyGraph)
         IN IF Len(delta) > 0
            THEN BuildFromEmptyEachEvent(Tail(files), applyGraphDeltaToGraph(graph, delta),
                                         allDeltas \o delta)
            ELSE BuildFromEmptyEachEvent(Tail(files), graph, allDeltas)

\* Mutant: allDeltas is assigned the delta of the event, not extended by it.
RECURSIVE BuildFromKeepsLastDelta(_, _, _)
BuildFromKeepsLastDelta(files, graph, allDeltas) ==
    IF files = <<>> THEN [graph |-> graph, allDeltas |-> allDeltas]
    ELSE LET fsEvent == [absolutePath |-> Head(files).path,
                         content |-> Head(files).content, eventType |-> "Added"]
             delta == addNodeToGraphWithEdgeHealingFromFSEvent(fsEvent, graph)
         IN IF Len(delta) > 0
            THEN BuildFromKeepsLastDelta(Tail(files), applyGraphDeltaToGraph(graph, delta), delta)
            ELSE BuildFromKeepsLastDelta(Tail(files), graph, allDeltas)

RECURSIVE BuildFrom(_, _, _)
BuildFrom(files, graph, allDeltas) ==
    IF files = <<>> THEN [graph |-> graph, allDeltas |-> allDeltas]
    ELSE LET fsEvent == [absolutePath |-> Head(files).path,
                         content |-> Head(files).content, eventType |-> "Added"]
             delta == addNodeToGraphWithEdgeHealingFromFSEvent(fsEvent, graph)
         IN IF Len(delta) > 0
            THEN BuildFrom(Tail(files), applyGraphDeltaToGraph(graph, delta), allDeltas \o delta)
            ELSE BuildFrom(Tail(files), graph, allDeltas)

BuildGraph(files) == BuildFrom(files, createEmptyGraph, <<>>)

(***************************************************************************)
(* Position merger: the loop of loadAndPushGraph that carries positions of *)
(* the previous graph into the rebuilt one.                                *)
(***************************************************************************)
\* prevNodes[nodeId]?.nodeUIMetadata?.position, undefined as None.
PrevPos(prevNodes, nodeId) ==
    IF nodeId \in DOMAIN prevNodes THEN prevNodes[nodeId].nodeUIMetadata.position ELSE None

\* Mutant: no position is carried over.
MergePositionsNone(graph, current) == graph

\* Mutant: the nodes that are only in the previous graph are kept.
MergePositionsKeepDeleted(graph, current) ==
    IF current = Null THEN graph
    ELSE [nodes |-> [nodeId \in NodeIds(graph) \cup NodeIds(current) |->
            IF nodeId \in NodeIds(graph) THEN graph.nodes[nodeId]
            ELSE current.nodes[nodeId]]]

MergePositions(graph, current) ==
    IF current = Null THEN graph
    ELSE [nodes |-> [nodeId \in NodeIds(graph) |->
            LET prevPos == PrevPos(current.nodes, nodeId)
            IN IF IsSome(prevPos)
               THEN [graph.nodes[nodeId] EXCEPT !.nodeUIMetadata.position = prevPos]
               ELSE graph.nodes[nodeId]]]

(***************************************************************************)
(* Inputs.                                                                 *)
(***************************************************************************)
\* The files a listing can hold: /a.md with either content, /b.md with one.
Files == {f \in [path : Paths, content : Contents] :
            f.path = PathOrder[1] \/ f.content = "x"}
\* Listings hold each path at most once, in any order; a file with the longer
\* content is listed alone.
Listings ==
    {l \in UNION {[1..n -> Files] : n \in 0..MaxFiles} :
        /\ \A i, j \in 1..Len(l) : i # j => l[i].path # l[j].path
        /\ \A i \in 1..Len(l) : l[i].content # "x" => Len(l) = 1}
\* Deltas of local edits.
EditDeltas ==
    {<<UpsertNode(MkNode(PathOrder[1], "xy", None))>>,
     <<UpsertNode(MkNode(PathOrder[2], "x", Some([x |-> 10, y |-> 20])))>>,
     <<DeleteNode(PathOrder[1])>>,
     <<DeleteNode(PathOrder[1]), UpsertNode(MkNode(PathOrder[2], "x", None))>>}
\* Batches of saveNodePositions: an entry may lack a position or name an unknown id.
CyNodes == [id : Paths \cup {"/unknown.md"}, position : {None} \cup {Some(q) : q \in Positions}]
CyBatches ==
    {<<c>> : c \in CyNodes} \cup
    {<<c, d>> : c \in {[id |-> "/unknown.md", position |-> Some(q)] : q \in Positions}
                       \cup {[id |-> PathOrder[1], position |-> None]},
                d \in [id : Paths, position : {Some(q) : q \in Positions}]}
\* Callbacks handed to graph.onGraphUpdate.
CallbackOrder == <<"cb1", "cb2">>
Callbacks == {CallbackOrder[i] : i \in 1..Len(CallbackOrder)}
\* Results of a write or delete request: resp.ok, !resp.ok, fetch throws.
RequestOutcomes == {"ok", "notOk", "throws"}
\* Activations of loadAndPushGraph, applyGraphDelta and pushFullGraphToUI that
\* can be suspended at the same time.
PollIds == 1..MaxPolls
EditIds == {"edit1"}
PushIds == 1..MaxTimers

(***************************************************************************)
(* State.                                                                  *)
(***************************************************************************)
VARIABLES
    currentGraph,         \* _currentGraph: Null or a graph
    graphUpdateCallback,  \* _graphUpdateCallback: Null or a callback
    pollIntervalId,       \* _pollIntervalId: Null or "interval"
    lastFileFingerprint,  \* _lastFileFingerprint
    undoStack,            \* _undoStack, oldest first
    redoStack,            \* _redoStack, oldest first
    suppressPolling,      \* _suppressPolling
    polls,                \* activations of loadAndPushGraph
    edits,                \* activations of applyGraphDelta
    pushes,               \* activations of performUndo/performRedo in pushFullGraphToUI
    initialLoadTimers,    \* pending setTimeout(loadAndPushGraph, 1000) of onGraphUpdate
    cooldownTimers,       \* pending setTimeout(_suppressPolling = false, 5000)
    lastStep,             \* the last step: the handler code run and its callback call
    opsLeft,              \* handler calls the behaviour may still make
    editSincePoll,        \* history: a local edit completed and no poll began a fetch since
    subscription,         \* history: onGraphUpdate calls so far, and whether the function
                          \* returned by the latest of them has not been called
    fnArgs,               \* inputs of a pure function under check
    fnResult,             \* its result
    backendListings,      \* the listings GET /files of the backend may answer with
    uiReplay,             \* history, where kept (on): the node ids a subscriber has
                          \* after replaying the deltas delivered since subscription
    disk                  \* where on: the files of the backend, changed by the write and
                          \* delete requests of this program only, and listed by GET /files

moduleVars == <<currentGraph, graphUpdateCallback, pollIntervalId, lastFileFingerprint,
                undoStack, redoStack, suppressPolling>>
procVars == <<polls, edits, pushes>>
timerVars == <<initialLoadTimers, cooldownTimers>>
fnVars == <<fnArgs, fnResult>>
envVars == <<backendListings, uiReplay, disk>>
histVars == <<editSincePoll, subscription>>
vars == <<moduleVars, procVars, timerVars, lastStep, opsLeft, histVars, fnVars, envVars>>

IdlePoll == [pc |-> "idle", files |-> <<>>, afterEdit |-> FALSE]
IdleEdit == [pc |-> "idle", delta |-> <<>>, i |-> 0, snapshot |-> Null]
IdlePush == [pc |-> "idle", beforeGraph |-> Null, restored |-> Null]

InitModule ==
    /\ currentGraph = Null
    /\ graphUpdateCallback = NoRef
    /\ pollIntervalId = NoRef
    /\ lastFileFingerprint = ""
    /\ undoStack = <<>>
    /\ redoStack = <<>>
    /\ suppressPolling = FALSE
    /\ initialLoadTimers = 0
    /\ cooldownTimers = 0
    /\ lastStep = [call |-> "init", to |-> NoRef, delta |-> <<>>, before |-> Null, input |-> <<>>]
    /\ editSincePoll = FALSE
    /\ subscription = [count |-> 0, active |-> FALSE]
    /\ backendListings = Listings
    /\ uiReplay = [on |-> FALSE, ids |-> {}]
    /\ disk = [on |-> FALSE, files |-> <<>>]

Init ==
    /\ InitModule
    /\ polls = [p \in PollIds |-> IdlePoll]
    /\ edits = [e \in EditIds |-> IdleEdit]
    /\ pushes = [u \in PushIds |-> IdlePush]
    /\ opsLeft = MaxOps
    /\ fnArgs = <<>>
    /\ fnResult = <<>>

\* graph ?? { nodes: {} }
GraphOrEmpty(graph) == IF graph # Null THEN graph ELSE createEmptyGraph
getCurrentGraph == GraphOrEmpty(currentGraph)

\* A step of handler code `call` that calls no callback.
Step(call) == lastStep' = [call |-> call, to |-> NoRef, delta |-> <<>>, before |-> Null, input |-> <<>>]
\* A step of handler code `call` that ends in _graphUpdateCallback(delta).
Delivering(call, delta) ==
    lastStep' = [call |-> call, to |-> graphUpdateCallback, delta |-> delta, before |-> Null,
                 input |-> <<>>]
\* The current graph and the undo stack a step starts from.
Before == [currentGraph |-> currentGraph, undoStack |-> undoStack, redoStack |-> redoStack]
\* A step of `call` with the state `before` it kept and the callback `to` it
\* called with `delta`.
StepFrom(call, before, to, delta) ==
    lastStep' = [call |-> call, to |-> to, delta |-> delta, before |-> before, input |-> <<>>]
\* A step of `call` on the argument `input`, from the state `before`.
StepOn(call, before, input) ==
    lastStep' = [call |-> call, to |-> NoRef, delta |-> <<>>, before |-> before, input |-> input]
\* The steps that call a callback.
Delivered(step) == step.to # NoRef

\* The node ids a subscriber has after replaying the delta on those it had.
RECURSIVE ReplayIds(_, _)
ReplayIds(ids, delta) ==
    IF delta = <<>> THEN ids
    ELSE ReplayIds(IF Head(delta).type = "UpsertNode"
                   THEN ids \cup {Head(delta).nodeToUpsert.absoluteFilePathIsID}
                   ELSE ids \ {Head(delta).nodeId},
                   Tail(delta))
\* The subscriber replays the delta that the step delivers, if any.
Replayed ==
    uiReplay' = IF uiReplay.on /\ Delivered(lastStep')
                THEN [uiReplay EXCEPT !.ids = ReplayIds(@, lastStep'.delta)]
                ELSE uiReplay
\* A new subscriber starts from nothing.
ReplayReset == uiReplay' = [uiReplay EXCEPT !.ids = {}]

\* A handler is called from outside: one call of the behaviour's budget.
Called == opsLeft > 0 /\ opsLeft' = opsLeft - 1

(***************************************************************************)
(* Subscription: graph.onGraphUpdate and the function it returns.          *)
(***************************************************************************)
startGraphPolling == pollIntervalId' = "interval"

onGraphUpdate(callback) ==
    /\ Called
    /\ initialLoadTimers < MaxTimers
    /\ subscription.count < Len(CallbackOrder)
    /\ callback = CallbackOrder[subscription.count + 1]
    /\ subscription' = [count |-> subscription.count + 1, active |-> TRUE]
    /\ graphUpdateCallback' = callback
    /\ initialLoadTimers' = initialLoadTimers + 1
    /\ startGraphPolling
    /\ Step("onGraphUpdate")
    /\ UNCHANGED <<currentGraph, lastFileFingerprint, undoStack, redoStack, suppressPolling,
                   procVars, cooldownTimers, editSincePoll, fnVars, backendListings, disk>>
    /\ ReplayReset

stopGraphPolling == pollIntervalId' = NoRef

\* The function an onGraphUpdate call returned is called: that of the latest
\* call, or (stale) that of an earlier call whose callback was replaced.
Unsubscribe(stale) ==
    /\ Called
    /\ graphUpdateCallback # NoRef \/ pollIntervalId # NoRef
    /\ subscription.count > (IF stale THEN 1 ELSE 0)
    /\ graphUpdateCallback' = NoRef
    /\ stopGraphPolling
    /\ subscription' = [subscription EXCEPT !.active = stale /\ subscription.active]
    /\ Step(IF stale THEN "staleUnsubscribe" ELSE "unsubscribe")
    /\ UNCHANGED <<currentGraph, lastFileFingerprint, undoStack, redoStack, suppressPolling,
                   procVars, timerVars, editSincePoll, fnVars, envVars>>

(***************************************************************************)
(* loadAndPushGraph, cut at its awaits: the fetch, resp.json(), the        *)
(* dynamic imports.  The backend port is taken as configured.              *)
(***************************************************************************)
\* Entry of loadAndPushGraph: returns at once while polling is suppressed.
loadAndPushGraph(p) ==
    IF suppressPolling THEN UNCHANGED <<polls, editSincePoll>>
    ELSE /\ polls' = [polls EXCEPT ![p] = [pc |-> "fetch", files |-> <<>>,
                                           afterEdit |-> editSincePoll]]
         /\ editSincePoll' = FALSE

\* The activation a new call of loadAndPushGraph runs as.
FreePoll(p) ==
    /\ polls[p].pc = "idle"
    /\ \A q \in PollIds : polls[q].pc = "idle" => p <= q

\* A tick of the setInterval of startGraphPolling.
IntervalTick(p) ==
    /\ Called
    /\ pollIntervalId # NoRef
    /\ FreePoll(p)
    /\ ~suppressPolling
    /\ loadAndPushGraph(p)
    /\ Step("intervalTick")
    /\ UNCHANGED <<moduleVars, edits, pushes, timerVars, subscription, fnVars, envVars>>

\* The one-shot timer of onGraphUpdate fires.
InitialLoad(p) ==
    /\ initialLoadTimers > 0
    /\ FreePoll(p)
    /\ initialLoadTimers' = initialLoadTimers - 1
    /\ loadAndPushGraph(p)
    /\ Step("initialLoad")
    /\ UNCHANGED <<moduleVars, edits, pushes, cooldownTimers, opsLeft, subscription, fnVars, envVars>>

\* Mutant: a failed fetch is taken for an empty listing.
PollFetchFailedAsEmpty(p) ==
    /\ polls[p].pc = "fetch"
    /\ polls' = [polls EXCEPT ![p] = IdlePoll]
    /\ currentGraph' = createEmptyGraph
    /\ lastFileFingerprint' = Fingerprint(<<>>)
    /\ editSincePoll' = (editSincePoll \/ polls[p].afterEdit)
    /\ Step("pollFetchFailed")
    /\ UNCHANGED <<graphUpdateCallback, pollIntervalId, undoStack, redoStack, suppressPolling,
                   edits, pushes, timerVars, opsLeft, subscription, fnVars, envVars>>

\* The fetch fails, answers non-OK or without a file list: return false.
PollFetchFailed(p) ==
    /\ polls[p].pc = "fetch"
    /\ polls' = [polls EXCEPT ![p] = IdlePoll]
    /\ editSincePoll' = (editSincePoll \/ polls[p].afterEdit)
    /\ Step("pollFetchFailed")
    /\ UNCHANGED <<moduleVars, edits, pushes, timerVars, opsLeft, subscription, fnVars, envVars>>

\* The fetch answers with a listing; resp.json() is awaited.
PollResponse(p, files) ==
    /\ polls[p].pc = "fetch"
    /\ polls' = [polls EXCEPT ![p].pc = "gate", ![p].files = files]
    /\ Step("pollResponse")
    /\ UNCHANGED <<moduleVars, edits, pushes, timerVars, opsLeft, histVars, fnVars, envVars>>

\* The fingerprint gate and the empty-listing case, up to the await of the imports.
PollGate(p) ==
    /\ polls[p].pc = "gate"
    /\ LET files == polls[p].files
           fingerprint == Fingerprint(files)
       IN IF fingerprint = lastFileFingerprint
          THEN /\ polls' = [polls EXCEPT ![p] = IdlePoll]
               /\ UNCHANGED <<currentGraph, lastFileFingerprint>>
          ELSE /\ lastFileFingerprint' = fingerprint
               /\ IF Len(files) = 0
                  THEN /\ currentGraph' = createEmptyGraph
                       /\ polls' = [polls EXCEPT ![p] = IdlePoll]
                  ELSE /\ polls' = [polls EXCEPT ![p].pc = "import", ![p].afterEdit = FALSE]
                       /\ UNCHANGED currentGraph
    /\ Step("pollGate")
    /\ UNCHANGED <<graphUpdateCallback, pollIntervalId, undoStack, redoStack, suppressPolling,
                   edits, pushes, timerVars, opsLeft, histVars, fnVars, envVars>>

\* After the imports: build, merge the positions, store, notify.
\* A step of the rebuild of the listing `files` that calls `to` with `delta`;
\* `again` tells that it directly follows a rebuild of the same listing.
BuildStepFrom(files, to, delta) ==
    lastStep' = [call |-> "pollBuild", to |-> to, delta |-> delta, input |-> files,
                 before |-> [currentGraph |-> currentGraph, undoStack |-> undoStack,
                             redoStack |-> redoStack,
                             again |-> lastStep.call = "pollBuild" /\ lastStep.input = files]]

\* Mutant: the delta leaves out the nodes that the current graph holds already.
PollBuildSkipsKnownNodes(p) ==
    /\ polls[p].pc = "import"
    /\ LET built == BuildGraph(polls[p].files)
           graph == MergePositions(built.graph, currentGraph)
           fresh == SelectSeq(built.allDeltas,
                              LAMBDA op : op.nodeToUpsert.absoluteFilePathIsID
                                              \notin NodeIds(GraphOrEmpty(currentGraph)))
       IN /\ currentGraph' = graph
          /\ IF Len(fresh) > 0 /\ graphUpdateCallback # NoRef
             THEN BuildStepFrom(polls[p].files, graphUpdateCallback, fresh)
             ELSE BuildStepFrom(polls[p].files, NoRef, <<>>)
    /\ polls' = [polls EXCEPT ![p] = IdlePoll]
    /\ UNCHANGED <<graphUpdateCallback, pollIntervalId, lastFileFingerprint, undoStack,
                   redoStack, suppressPolling, edits, pushes, timerVars, opsLeft,
                   histVars, fnVars, backendListings, disk>>
    /\ Replayed

PollBuild(p) ==
    /\ polls[p].pc = "import"
    /\ LET built == BuildGraph(polls[p].files)
           graph == MergePositions(built.graph, currentGraph)
       IN /\ currentGraph' = graph
          /\ IF Len(built.allDeltas) > 0 /\ graphUpdateCallback # NoRef
             THEN BuildStepFrom(polls[p].files, graphUpdateCallback, built.allDeltas)
             ELSE BuildStepFrom(polls[p].files, NoRef, <<>>)
    /\ polls' = [polls EXCEPT ![p] = IdlePoll]
    /\ UNCHANGED <<graphUpdateCallback, pollIntervalId, lastFileFingerprint, undoStack,
                   redoStack, suppressPolling, edits, pushes, timerVars, opsLeft,
                   histVars, fnVars, backendListings, disk>>
    /\ Replayed

\* After the gate an import rejects, or the builder or the applier throws:
\* the catch logs the error and returns false.
PollBuildFailed(p) ==
    /\ polls[p].pc = "import"
    /\ polls' = [polls EXCEPT ![p] = IdlePoll]
    /\ Step("pollBuildFailed")
    /\ UNCHANGED <<moduleVars, edits, pushes, timerVars, opsLeft, histVars, fnVars, envVars>>

(***************************************************************************)
(* applyGraphDelta, cut at its awaits: the imports, each write or delete   *)
(* request.                                                                *)
(***************************************************************************)
\* Mutant: the push without the eviction of the oldest snapshot.
PushUnbounded(stack, graph) == Append(stack, graph)

\* stack.push(graph); if (stack.length > MAX_UNDO) stack.shift()
PushBounded(stack, graph) ==
    LET pushed == Append(stack, graph)
    IN IF Len(pushed) > MAX_UNDO THEN Tail(pushed) ELSE pushed

\* Mutant: a new edit keeps the redo history.
SaveUndoStateKeepRedo ==
    IF currentGraph # Null
    THEN /\ undoStack' = Append(undoStack, currentGraph)
         /\ UNCHANGED redoStack
    ELSE UNCHANGED <<undoStack, redoStack>>

\* The undo state saved by applyGraphDelta.
SaveUndoState ==
    IF currentGraph # Null
    THEN /\ undoStack' = PushBounded(undoStack, currentGraph)
         /\ redoStack' = <<>>
    ELSE UNCHANGED <<undoStack, redoStack>>

\* Mutant: the undo state is saved before the delta is looked at.
EditEmptyDeltaSavesUndo ==
    /\ Called
    /\ SaveUndoState
    /\ Step("applyGraphDeltaEmpty")
    /\ UNCHANGED <<currentGraph, graphUpdateCallback, pollIntervalId, lastFileFingerprint,
                   suppressPolling, procVars, timerVars, histVars, fnVars, envVars>>

\* applyGraphDelta called with no delta or an empty one: return at once.
EditEmptyDelta ==
    /\ Called
    /\ Step("applyGraphDeltaEmpty")
    /\ UNCHANGED <<moduleVars, procVars, timerVars, histVars, fnVars, envVars>>

\* Entry with a non-empty delta: save the undo state, await the imports.
EditStart(e, delta) ==
    /\ Called
    /\ edits[e].pc = "idle"
    /\ Len(delta) # 0
    /\ SaveUndoState
    /\ edits' = [edits EXCEPT ![e] = [pc |-> "import", delta |-> delta, i |-> 0,
                                      snapshot |-> currentGraph]]
    /\ StepFrom("applyGraphDelta", Before, NoRef, <<>>)
    /\ UNCHANGED <<currentGraph, graphUpdateCallback, pollIntervalId, lastFileFingerprint,
                   suppressPolling, polls, pushes, timerVars, histVars, fnVars, envVars>>

\* Mutant: the subscriber is notified as soon as the delta is applied, before
\* the requests.
EditApplyNotifiesFirst(e) ==
    /\ edits[e].pc = "import"
    /\ currentGraph' = applyGraphDeltaToGraph(getCurrentGraph, edits[e].delta)
    /\ edits' = [edits EXCEPT ![e].pc = "write", ![e].i = 1]
    /\ IF graphUpdateCallback # NoRef
       THEN Delivering("editApply", edits[e].delta)
       ELSE Step("editApply")
    /\ UNCHANGED <<graphUpdateCallback, pollIntervalId, lastFileFingerprint, undoStack,
                   redoStack, suppressPolling, polls, pushes, timerVars, opsLeft,
                   histVars, fnVars, envVars>>

\* Apply the delta to the local graph and issue the first write or delete request.
EditApply(e) ==
    /\ edits[e].pc = "import"
    /\ currentGraph' = applyGraphDeltaToGraph(getCurrentGraph, edits[e].delta)
    /\ edits' = [edits EXCEPT ![e].pc = "write", ![e].i = 1]
    /\ Step("editApply")
    /\ UNCHANGED <<graphUpdateCallback, pollIntervalId, lastFileFingerprint, undoStack,
                   redoStack, suppressPolling, polls, pushes, timerVars, opsLeft,
                   histVars, fnVars, envVars>>

\* fromNodeToMarkdownContent: the text of the node's file; the position is
\* not part of it.
fromNodeToMarkdownContent(node) == node.content
\* filePath of a request: the id, with .md appended where it lacks it.
FilePath(id) ==
    IF Len(id) >= 3 /\ SubSeq(id, Len(id) - 2, Len(id)) = ".md" THEN id ELSE id \o ".md"
\* The files after the request that applyGraphDelta issues for the operation:
\* POST /write-node creates or overwrites the file, POST /delete-node removes
\* it.  GET /files lists the files in the order of PathOrder.
DiskAfter(files, op) ==
    LET DiskWrite(filePath, content) ==
            LET others == {f \in {files[i] : i \in 1..Len(files)} : f.path # filePath}
                all == others \cup {[path |-> filePath, content |-> content]}
                listed == SelectSeq(PathOrder, LAMBDA path : \E f \in all : f.path = path)
            IN [i \in 1..Len(listed) |-> CHOOSE f \in all : f.path = listed[i]]
        DiskDelete(filePath) == SelectSeq(files, LAMBDA f : f.path # filePath)
    IN IF op.type = "UpsertNode"
       THEN DiskWrite(FilePath(op.nodeToUpsert.absoluteFilePathIsID),
                      fromNodeToMarkdownContent(op.nodeToUpsert))
       ELSE DiskDelete(FilePath(op.nodeId))
\* The listings that GET /files may answer with now.
Served == IF disk.on THEN {disk.files} ELSE backendListings

\* Mutant: a failed request rejects instead of resolving to false.
backendRequestRethrows(outcome) ==
    IF outcome = "ok" THEN "true" ELSE "rejected"

\* backendWriteNode / backendDeleteNode: resp.ok, or false when fetch throws.
backendRequest(outcome) ==
    IF outcome = "ok" THEN "true" ELSE "false"

\* A request returns (its result is ignored): issue the next one, or, after
\* the last, push the delta to the UI and reset the fingerprint.  A rejected
\* request would end applyGraphDelta there.
EditRequestReturned(e, outcome) ==
    /\ edits[e].pc = "write"
    /\ LET call == IF outcome = "ok" THEN "editRequestReturned" ELSE "editRequestFailed"
       IN IF backendRequest(outcome) = "rejected"
          THEN /\ edits' = [edits EXCEPT ![e] = IdleEdit]
               /\ Step(call) /\ UNCHANGED <<lastFileFingerprint, editSincePoll>>
          ELSE IF edits[e].i < Len(edits[e].delta)
          THEN /\ edits' = [edits EXCEPT ![e].i = edits[e].i + 1]
               /\ Step(call) /\ UNCHANGED <<lastFileFingerprint, editSincePoll>>
          ELSE /\ IF graphUpdateCallback # NoRef
                  THEN Delivering(call, edits[e].delta)
                  ELSE Step(call)
               /\ lastFileFingerprint' = ""
               /\ editSincePoll' = TRUE
               /\ edits' = [edits EXCEPT ![e] = IdleEdit]
    /\ UNCHANGED <<currentGraph, graphUpdateCallback, pollIntervalId, undoStack, redoStack,
                   suppressPolling, polls, pushes, timerVars, opsLeft, subscription, fnVars,
                   backendListings>>
    /\ disk' = IF disk.on /\ outcome = "ok"
               THEN [disk EXCEPT !.files = DiskAfter(@, edits[e].delta[edits[e].i])]
               ELSE disk
    /\ Replayed

(***************************************************************************)
(* saveNodePositions.                                                      *)
(***************************************************************************)
\* Mutant: the loop ends at the first entry it has to ignore.
RECURSIVE SetPositionsUntilIgnored(_, _)
SetPositionsUntilIgnored(graph, cyNodes) ==
    IF cyNodes = <<>> THEN graph
    ELSE LET nodeId == Head(cyNodes).id
             pos == Head(cyNodes).position
         IN IF ~IsSome(pos) \/ nodeId \notin NodeIds(graph)
            THEN graph
            ELSE SetPositionsUntilIgnored(
                    [graph EXCEPT !.nodes[nodeId].nodeUIMetadata.position = pos],
                    Tail(cyNodes))

\* The loop of saveNodePositions over the batch.
RECURSIVE SetPositions(_, _)
SetPositions(graph, cyNodes) ==
    IF cyNodes = <<>> THEN graph
    ELSE LET nodeId == Head(cyNodes).id
             pos == Head(cyNodes).position
         IN IF ~IsSome(pos) \/ nodeId \notin NodeIds(graph)
            THEN SetPositions(graph, Tail(cyNodes))
            ELSE SetPositions(
                    [graph EXCEPT !.nodes[nodeId].nodeUIMetadata.position = pos],
                    Tail(cyNodes))

saveNodePositions(cyNodes) ==
    /\ Called
    /\ currentGraph # Null
    /\ currentGraph' = SetPositions(currentGraph, cyNodes)
    /\ StepOn("saveNodePositions", Before, cyNodes)
    /\ UNCHANGED <<graphUpdateCallback, pollIntervalId, lastFileFingerprint, undoStack,
                   redoStack, suppressPolling, procVars, timerVars, histVars, fnVars, envVars>>

(***************************************************************************)
(* Undo / redo: performUndo and performRedo up to the await inside         *)
(* pushFullGraphToUI, the rest of pushFullGraphToUI, the cooldown timer.   *)
(***************************************************************************)
Last(stack) == stack[Len(stack)]
Front(stack) == SubSeq(stack, 1, Len(stack) - 1)

PendingPushes == Cardinality({u \in DOMAIN pushes : pushes[u].pc # "idle"})

\* pushFullGraphToUI(beforeGraph) up to its await, called with the restored
\* graph already stored: without a subscriber it returns, and the caller
\* sets the cooldown timer.
EnterPush(u, beforeGraph, restored) ==
    IF restored = Null \/ graphUpdateCallback = NoRef
    THEN /\ cooldownTimers' = cooldownTimers + 1
         /\ UNCHANGED pushes
    ELSE /\ pushes' = [pushes EXCEPT ![u] = [pc |-> "import", beforeGraph |-> beforeGraph,
                                             restored |-> restored]]
         /\ UNCHANGED cooldownTimers

\* Mutant: undo forgets to push the current graph on the redo stack.
UndoEffectNoRedoPush(current, undo, redo) ==
    [currentGraph |-> Last(undo), undoStack |-> Front(undo), redoStack |-> redo]

\* Mutant: redo forgets to push the current graph on the undo stack.
RedoEffectNoUndoPush(current, undo, redo) ==
    [currentGraph |-> Last(redo), undoStack |-> undo, redoStack |-> Front(redo)]

\* The synchronous part of performUndo on the stacks and the current graph.
UndoEffect(current, undo, redo) ==
    [currentGraph |-> Last(undo),
     undoStack |-> Front(undo),
     redoStack |-> IF current # Null THEN Append(redo, current) ELSE redo]

\* The synchronous part of performRedo on the stacks and the current graph.
RedoEffect(current, undo, redo) ==
    [currentGraph |-> Last(redo),
     undoStack |-> IF current # Null THEN Append(undo, current) ELSE undo,
     redoStack |-> Front(redo)]

\* The pushFullGraphToUI call a new undo or redo makes.
FreePush(u) ==
    /\ pushes[u].pc = "idle"
    /\ \A v \in PushIds : pushes[v].pc = "idle" => u <= v

performUndo(u) ==
    /\ Called
    /\ IF Len(undoStack) = 0
       THEN /\ u = 1
            /\ Step("performUndo")
            /\ UNCHANGED <<currentGraph, undoStack, redoStack, suppressPolling, pushes,
                           cooldownTimers>>
       ELSE /\ FreePush(u)
            /\ StepFrom("performUndo", Before, NoRef, <<>>)
            /\ cooldownTimers + PendingPushes < MaxTimers
            /\ suppressPolling' = TRUE
            /\ LET after == UndoEffect(currentGraph, undoStack, redoStack)
               IN /\ undoStack' = after.undoStack
                  /\ redoStack' = after.redoStack
                  /\ currentGraph' = after.currentGraph
                  /\ EnterPush(u, currentGraph, after.currentGraph)
    /\ UNCHANGED <<graphUpdateCallback, pollIntervalId, lastFileFingerprint, polls, edits,
                   initialLoadTimers, histVars, fnVars, envVars>>

\* A redo keeps what the undo of the step before it, if any, started from.
performRedo(u) ==
    /\ Called
    /\ IF Len(redoStack) = 0
       THEN /\ u = 1
            /\ Step("performRedo")
            /\ UNCHANGED <<currentGraph, undoStack, redoStack, suppressPolling, pushes,
                           cooldownTimers>>
       ELSE /\ FreePush(u)
            /\ StepFrom("performRedo",
                        IF lastStep.call = "performUndo" THEN lastStep.before ELSE Null,
                        NoRef, <<>>)
            /\ cooldownTimers + PendingPushes < MaxTimers
            /\ suppressPolling' = TRUE
            /\ LET after == RedoEffect(currentGraph, undoStack, redoStack)
               IN /\ undoStack' = after.undoStack
                  /\ redoStack' = after.redoStack
                  /\ currentGraph' = after.currentGraph
                  /\ EnterPush(u, currentGraph, after.currentGraph)
    /\ UNCHANGED <<graphUpdateCallback, pollIntervalId, lastFileFingerprint, polls, edits,
                   initialLoadTimers, histVars, fnVars, envVars>>

\* The delta of pushFullGraphToUI: the deletes first, then the upserts.
FullDelta(previousGraph, current) ==
    LET upsertDeltas == mapNewGraphToDelta(current)
        removed == IF previousGraph # Null
                   THEN SelectSeq(Keys(previousGraph), LAMBDA id : id \notin NodeIds(current))
                   ELSE <<>>
        deleteDeltas == [i \in 1..Len(removed) |-> DeleteNode(removed[i])]
    IN deleteDeltas \o upsertDeltas

\* pushFullGraphToUI after its await, then the setTimeout of the caller.  The
\* call of a callback that was cleared meanwhile throws: no timer is set.
PushFullGraph(u) ==
    /\ pushes[u].pc = "import"
    /\ IF graphUpdateCallback = NoRef
       THEN Step("pushFullGraphToUI") /\ UNCHANGED <<lastFileFingerprint, cooldownTimers>>
       ELSE /\ Delivering("pushFullGraphToUI", FullDelta(pushes[u].beforeGraph, currentGraph))
            /\ lastFileFingerprint' = ""
            /\ cooldownTimers' = cooldownTimers + 1
    /\ pushes' = [pushes EXCEPT ![u] = IdlePush]
    /\ UNCHANGED <<currentGraph, graphUpdateCallback, pollIntervalId, undoStack, redoStack,
                   suppressPolling, polls, edits, initialLoadTimers, opsLeft,
                   histVars, fnVars, backendListings, disk>>
    /\ Replayed

\* setTimeout(() => { _suppressPolling = false; }, 5000) fires.
CooldownFire ==
    /\ cooldownTimers > 0
    /\ cooldownTimers' = cooldownTimers - 1
    /\ suppressPolling' = FALSE
    /\ Step("cooldownFire")
    /\ UNCHANGED <<currentGraph, graphUpdateCallback, pollIntervalId, lastFileFingerprint,
                   undoStack, redoStack, procVars, initialLoadTimers, opsLeft,
                   histVars, fnVars, envVars>>

(***************************************************************************)
(* The program: every handler step, in every interleaving.                 *)
(***************************************************************************)
Next ==
    \/ \E callback \in Callbacks : onGraphUpdate(callback)
    \/ \E stale \in BOOLEAN : Unsubscribe(stale)
    \/ \E p \in PollIds : IntervalTick(p)
    \/ \E p \in PollIds : InitialLoad(p)
    \/ \E p \in PollIds : PollFetchFailed(p)
    \/ \E p \in PollIds, files \in Served : PollResponse(p, files)
    \/ \E p \in PollIds : PollGate(p)
    \/ \E p \in PollIds : PollBuild(p)
    \/ \E p \in PollIds : PollBuildFailed(p)
    \/ \E e \in EditIds, delta \in EditDeltas : EditStart(e, delta)
    \/ \E e \in EditIds : EditApply(e)
    \/ \E e \in EditIds, outcome \in RequestOutcomes : EditRequestReturned(e, outcome)
    \/ EditEmptyDelta
    \/ \E cyNodes \in CyBatches : saveNodePositions(cyNodes)
    \/ \E u \in PushIds : performUndo(u)
    \/ \E u \in PushIds : performRedo(u)
    \/ \E u \in PushIds : PushFullGraph(u)
    \/ CooldownFire

Spec == Init /\ [][Next]_vars

\* The program with its scheduling: a pending timer fires, and a promise
\* that is resolved (the import awaited by pushFullGraphToUI) runs its
\* continuation.
Fairness ==
    /\ WF_vars(CooldownFire)
    /\ \A u \in PushIds : WF_vars(PushFullGraph(u))
SpecFair == Spec /\ Fairness

(***************************************************************************)
(* The program after a long run of local edits: with no subscriber, the    *)
(* edits UpsertNode /a.md and DeleteNode /a.md called in turn, each run to *)
(* completion.  The first finds no graph and saves nothing; every later    *)
(* one pushes the graph it starts from.                                    *)
(***************************************************************************)
EditedGraph == applyGraphDeltaToGraph(createEmptyGraph, <<UpsertNode(MkNode(PathOrder[1], "xy", None))>>)
\* The i-th snapshot such a run pushes.
AlternatingSnapshot(i) == IF i % 2 = 1 THEN EditedGraph ELSE createEmptyGraph
\* The undo stack after `total` pushes: the latest MAX_UNDO of them.
StackAfter(total) ==
    LET kept == Min(total, MAX_UNDO)
    IN [j \in 1..kept |-> AlternatingSnapshot(j + total - kept)]
\* Pushes of the runs taken as starting points: one below capacity, at
\* capacity, one eviction done.
StackTotals == {MAX_UNDO - 1, MAX_UNDO, MAX_UNDO + 1}

InitStacks ==
    /\ \E total \in StackTotals :
        /\ undoStack = StackAfter(total)
        /\ currentGraph = AlternatingSnapshot(total + 1)
    /\ redoStack = <<>>
    /\ graphUpdateCallback = NoRef
    /\ pollIntervalId = NoRef
    /\ lastFileFingerprint = ""
    /\ suppressPolling = FALSE
    /\ initialLoadTimers = 0
    /\ cooldownTimers = 0
    /\ lastStep = [call |-> "init", to |-> NoRef, delta |-> <<>>, before |-> Null, input |-> <<>>]
    /\ editSincePoll = TRUE
    /\ subscription = [count |-> 0, active |-> FALSE]
    /\ polls = [p \in PollIds |-> IdlePoll]
    /\ edits = [e \in EditIds |-> IdleEdit]
    /\ pushes = [u \in PushIds |-> IdlePush]
    /\ opsLeft = MaxStackOps
    /\ fnArgs = <<>>
    /\ fnResult = <<>>
    /\ backendListings = Listings
    /\ uiReplay = [on |-> FALSE, ids |-> {}]
    /\ disk = [on |-> FALSE, files |-> <<>>]

SpecStacks == InitStacks /\ [][Next]_vars

(***************************************************************************)
(* The position merger alone, on every pair of a rebuilt and a previous    *)
(* graph.                                                                  *)
(***************************************************************************)
MergeOptions == {None} \cup {Some(q) : q \in Positions \cup {[x |-> 0, y |-> 0]}}
MergeNodes(p) == {MkNode(f.path, f.content, o) : f \in {g \in Files : g.path = p},
                                                 o \in MergeOptions}
MergeGraphs ==
    {[nodes |-> nodes] :
        nodes \in UNION {[ids -> UNION {MergeNodes(p) : p \in ids}] : ids \in SUBSET Paths}}
WellFormed(graph) == \A id \in NodeIds(graph) : graph.nodes[id].absoluteFilePathIsID = id

InitMerge ==
    /\ InitModule
    /\ polls = [p \in PollIds |-> IdlePoll]
    /\ edits = [e \in EditIds |-> IdleEdit]
    /\ pushes = [u \in PushIds |-> IdlePush]
    /\ opsLeft = 0
    /\ fnArgs \in {<<fresh, previous>> :
                    fresh \in {g \in MergeGraphs : WellFormed(g)},
                    previous \in {g \in MergeGraphs : WellFormed(g)} \cup {Null}}
    /\ fnResult = <<>>

ApplyMerge ==
    /\ fnResult = <<>>
    /\ fnResult' = <<MergePositions(fnArgs[1], fnArgs[2])>>
    /\ UNCHANGED <<moduleVars, procVars, timerVars, lastStep, opsLeft, histVars, fnArgs, envVars>>

NextMerge == ApplyMerge

SpecMerge == InitMerge /\ [][NextMerge]_vars

(***************************************************************************)
(* The delta applier alone: a graph, a first delta and a second delta      *)
(* applied to the result of the first.                                     *)
(***************************************************************************)
MaxDeltaLen == 2
MaxTailLen == 1
ApplierGraphs == {g \in MergeGraphs : WellFormed(g)}
ApplierOps ==
    {UpsertNode(n) : n \in UNION {MergeNodes(p) : p \in Paths}}
        \cup {DeleteNode(id) : id \in Paths \cup {"/unknown.md"}}
DeltasUpTo(n) == UNION {[1..k -> ApplierOps] : k \in 0..n}

InitApply ==
    /\ InitModule
    /\ polls = [p \in PollIds |-> IdlePoll]
    /\ edits = [e \in EditIds |-> IdleEdit]
    /\ pushes = [u \in PushIds |-> IdlePush]
    /\ opsLeft = 0
    /\ fnArgs \in [graph : ApplierGraphs, first : DeltasUpTo(MaxDeltaLen),
                    second : DeltasUpTo(MaxTailLen)]
    /\ fnResult = <<>>

ApplyFirst ==
    /\ fnResult = <<>>
    /\ fnResult' = <<applyGraphDeltaToGraph(fnArgs.graph, fnArgs.first)>>
    /\ UNCHANGED <<moduleVars, procVars, timerVars, lastStep, opsLeft, histVars, fnArgs, envVars>>

ApplySecond ==
    /\ Len(fnResult) = 1
    /\ fnResult' = Append(fnResult, applyGraphDeltaToGraph(fnResult[1], fnArgs.second))
    /\ UNCHANGED <<moduleVars, procVars, timerVars, lastStep, opsLeft, histVars, fnArgs, envVars>>

NextApply == ApplyFirst \/ ApplySecond

SpecApply == InitApply /\ [][NextApply]_vars

(***************************************************************************)
(* The rebuild loop alone: passes over one listing whose contents may hold *)
(* [[links]], each pass as loadAndPushGraph runs it.                       *)
(***************************************************************************)
MaxPasses == 2
LinkContents == Contents \cup {"[[a]]", "# B [[a]]", "[[b]]"}
LinkFiles == [path : Paths, content : LinkContents]
LinkListings ==
    {l \in UNION {[1..n -> LinkFiles] : n \in 0..MaxFiles} :
        \A i, j \in 1..Len(l) : i # j => l[i].path # l[j].path}

InitBuild ==
    /\ InitModule
    /\ polls = [p \in PollIds |-> IdlePoll]
    /\ edits = [e \in EditIds |-> IdleEdit]
    /\ pushes = [u \in PushIds |-> IdlePush]
    /\ opsLeft = 0
    /\ fnArgs \in [files : LinkListings]
    /\ fnResult = <<>>

\* One pass of the loop of lines 820-835 over the listing.
RebuildPass ==
    /\ Len(fnResult) < MaxPasses
    /\ fnResult' = Append(fnResult, BuildGraph(fnArgs.files))
    /\ UNCHANGED <<moduleVars, procVars, timerVars, lastStep, opsLeft, histVars, fnArgs, envVars>>

NextBuild == RebuildPass

SpecBuild == InitBuild /\ [][NextBuild]_vars

(***************************************************************************)
(* The program against a backend whose directory holds /b.md with a link   *)
(* to /a.md, with /a.md or after /a.md was removed; the deltas delivered   *)
(* to the subscriber are replayed.                                         *)
(***************************************************************************)
LinkedFile == [path |-> PathOrder[2], content |-> "# B [[a]]"]
ServedListings ==
    {<<[path |-> PathOrder[1], content |-> "x"], LinkedFile>>, <<LinkedFile>>}

InitLinks ==
    /\ currentGraph = Null
    /\ graphUpdateCallback = NoRef
    /\ pollIntervalId = NoRef
    /\ lastFileFingerprint = ""
    /\ undoStack = <<>>
    /\ redoStack = <<>>
    /\ suppressPolling = FALSE
    /\ initialLoadTimers = 0
    /\ cooldownTimers = 0
    /\ lastStep = [call |-> "init", to |-> NoRef, delta |-> <<>>, before |-> Null, input |-> <<>>]
    /\ editSincePoll = FALSE
    /\ subscription = [count |-> 0, active |-> FALSE]
    /\ polls = [p \in PollIds |-> IdlePoll]
    /\ edits = [e \in EditIds |-> IdleEdit]
    /\ pushes = [u \in PushIds |-> IdlePush]
    /\ opsLeft = MaxOps
    /\ fnArgs = <<>>
    /\ fnResult = <<>>
    /\ backendListings = ServedListings
    /\ uiReplay = [on |-> TRUE, ids |-> {}]
    /\ disk = [on |-> FALSE, files |-> <<>>]

SpecLinks == InitLinks /\ [][Next]_vars

(***************************************************************************)
(* Properties.                                                             *)
(***************************************************************************)
\* The step just taken is a step of handler code `call`.
StepOf(call) == lastStep'.call = call
GateStep(p) == StepOf("pollGate") /\ polls[p].pc = "gate" /\ polls'[p] # polls[p]
BuildStep(p) == StepOf("pollBuild") /\ polls[p].pc = "import" /\ polls'[p] # polls[p]
ListedPaths(files) == {files[i].path : i \in 1..Len(files)}
ContentOf(files, path) ==
    files[CHOOSE i \in 1..Len(files) : files[i].path = path].content
PositionOf(graph, id) == graph.nodes[id].nodeUIMetadata.position

\* Two listings of the same paths in the same order that differ in the
\* content of exactly one file.
OneContentDiffers(l1, l2) ==
    /\ Len(l1) = Len(l2)
    /\ \E i \in 1..Len(l1) :
        /\ l1[i].path = l2[i].path
        /\ l1[i].content # l2[i].content
        /\ \A j \in 1..Len(l1) : j # i => l1[j] = l2[j]

\* The gate of a poll skipped the listing: nothing stored, nothing delivered.
Skipped(p) ==
    /\ UNCHANGED <<currentGraph, lastFileFingerprint>>
    /\ ~Delivered(lastStep')
    /\ polls'[p].pc = "idle"

\* C1: a poll that fetched a listing skips all downstream work (current
\* graph, stored fingerprint, subscriber untouched) exactly when the
\* fingerprint of the listing equals the stored one; after the gate the
\* stored fingerprint is that of the listing, so the same listing polled
\* again is skipped; listings that differ in one file's content have
\* different fingerprints, so such a listing is processed.
C1_GateRule ==
    \A p \in PollIds : GateStep(p) =>
        /\ (Fingerprint(polls[p].files) = lastFileFingerprint) <=> Skipped(p)
        /\ lastFileFingerprint' = Fingerprint(polls[p].files)
        /\ \A other \in Listings :
             OneContentDiffers(polls[p].files, other)
                => Fingerprint(other) # lastFileFingerprint'
C1_FingerprintGate == [][C1_GateRule]_vars
\* The gate has just skipped a non-empty listing that was processed before:
\* the poll ended at the gate with the fingerprint of a non-empty listing
\* stored and a graph loaded.
C1_Witness ==
    /\ lastStep.call = "pollGate"
    /\ \A p \in PollIds : polls[p].pc = "idle"
    /\ lastFileFingerprint # Fingerprint(<<>>)
    /\ currentGraph # Null
    /\ NodeIds(currentGraph) # {}

\* The gate of a poll processed the listing: the fingerprint is stored and
\* the listing is reconciled (the empty graph adopted, or the rebuild begun).
Processed(p) ==
    /\ lastFileFingerprint' = Fingerprint(polls[p].files)
    /\ IF Len(polls[p].files) = 0
       THEN currentGraph' = createEmptyGraph
       ELSE polls'[p].pc = "import"

\* C2: the first poll that begins after a local edit completed and fetches a
\* listing does not early-exit as unchanged, whatever the listing, the empty
\* one included.
C2_EditInvalidatesGate ==
    [][\A p \in PollIds : (GateStep(p) /\ polls[p].afterEdit) => Processed(p)]_vars

\* C3: a poll that fetched an empty listing leaves the empty graph as the
\* current graph and delivers nothing, whatever the stored fingerprint.
C3_EmptyListingAdopted ==
    [][\A p \in PollIds : (GateStep(p) /\ Len(polls[p].files) = 0) =>
            /\ GraphOrEmpty(currentGraph') = createEmptyGraph
            /\ ~Delivered(lastStep')]_vars

\* C4: a rebuild keeps the position of every node of the current graph whose
\* path is still listed, and gives the node the content of the listing.
C4_BuildRule ==
    \A p \in PollIds : BuildStep(p) =>
        \A id \in NodeIds(getCurrentGraph) \cap ListedPaths(polls[p].files) :
            IsSome(PositionOf(currentGraph, id)) =>
                /\ id \in NodeIds(currentGraph')
                /\ PositionOf(currentGraph', id) = PositionOf(currentGraph, id)
                /\ currentGraph'.nodes[id].content = ContentOf(polls[p].files, id)
C4_PositionPreserved == [][C4_BuildRule]_vars
\* The ids no local edit gives a position: only saveNodePositions does.
PositionedBySaveOnly ==
    {id \in Paths : \A delta \in EditDeltas : \A i \in 1..Len(delta) :
        (delta[i].type = "UpsertNode" /\ delta[i].nodeToUpsert.absoluteFilePathIsID = id)
            => ~IsSome(delta[i].nodeToUpsert.nodeUIMetadata.position)}
\* A rebuild has just changed the content of a node that saveNodePositions
\* had positioned, and the node has kept the position.
C4_Witness ==
    /\ lastStep.call = "pollBuild"
    /\ lastStep.before.currentGraph # Null
    /\ \E id \in NodeIds(currentGraph) \cap NodeIds(GraphOrEmpty(lastStep.before.currentGraph))
                \cap PositionedBySaveOnly :
        /\ IsSome(PositionOf(lastStep.before.currentGraph, id))
        /\ PositionOf(currentGraph, id) = PositionOf(lastStep.before.currentGraph, id)
        /\ currentGraph.nodes[id].content # lastStep.before.currentGraph.nodes[id].content

C6_BuildRule ==
    \A p \in PollIds : BuildStep(p) =>
        /\ NodeIds(currentGraph') = ListedPaths(polls[p].files)
        /\ \A id \in NodeIds(currentGraph') \ NodeIds(getCurrentGraph) :
             PositionOf(currentGraph', id) = None
C6_IdsFromListing == [][C6_BuildRule]_vars
\* A rebuild has just dropped a positioned node and added a new one.
C6_Witness ==
    /\ lastStep.call = "pollBuild"
    /\ lastStep.before.currentGraph # Null
    /\ \E id \in NodeIds(GraphOrEmpty(lastStep.before.currentGraph)) \ NodeIds(currentGraph) :
         IsSome(PositionOf(lastStep.before.currentGraph, id))
    /\ NodeIds(currentGraph) \ NodeIds(GraphOrEmpty(lastStep.before.currentGraph)) # {}

\* C7: undo with a non-empty undo stack pops the top snapshot, pushes the
\* pre-undo current graph on the redo stack and makes the snapshot current;
\* with an empty undo stack it changes nothing.  Redo likewise, the stacks
\* swapped.
C7_UndoRule ==
    StepOf("performUndo") =>
        IF Len(undoStack) = 0
        THEN /\ UNCHANGED <<currentGraph, undoStack, redoStack, suppressPolling,
                            lastFileFingerprint, graphUpdateCallback>>
             /\ ~Delivered(lastStep')
        ELSE /\ currentGraph' = Last(undoStack)
             /\ undoStack' = Front(undoStack)
             /\ redoStack' = Append(redoStack, currentGraph)
C7_RedoRule ==
    StepOf("performRedo") =>
        IF Len(redoStack) = 0
        THEN /\ UNCHANGED <<currentGraph, undoStack, redoStack, suppressPolling,
                            lastFileFingerprint, graphUpdateCallback>>
             /\ ~Delivered(lastStep')
        ELSE /\ currentGraph' = Last(redoStack)
             /\ redoStack' = Front(redoStack)
             /\ undoStack' = Append(undoStack, currentGraph)
C7_UndoRedoSteps == [][C7_UndoRule /\ C7_RedoRule]_vars
\* A redo has just restored a graph that an undo had taken away.
C7_Witness ==
    /\ lastStep.call = "performRedo"
    /\ Len(undoStack) > 0
    /\ currentGraph # Last(undoStack)

\* The operations of a delta by type and id.
Shape(delta) ==
    [i \in 1..Len(delta) |->
        IF delta[i].type = "UpsertNode"
        THEN <<"UpsertNode", delta[i].nodeToUpsert.absoluteFilePathIsID>>
        ELSE <<"DeleteNode", delta[i].nodeId>>]

\* C8: the delta an undo or redo delivers is a DeleteNode for each id of the
\* pre-jump graph that the restored snapshot lacks, then an UpsertNode for
\* each id of the restored snapshot.
C8_JumpDelta ==
    [][\A u \in PushIds :
        (StepOf("pushFullGraphToUI") /\ pushes[u].pc = "import" /\ pushes'[u].pc = "idle"
            /\ Delivered(lastStep')) =>
            Shape(lastStep'.delta) = Shape(FullDelta(pushes[u].beforeGraph, pushes[u].restored))]_vars

\* C9: with a non-empty undo stack, undo followed at once by redo gives back
\* the current graph and the undo stack of before the undo.
C9_UndoRedoRoundTrip ==
    (lastStep.call = "performRedo" /\ lastStep.before # Null) =>
        /\ currentGraph = lastStep.before.currentGraph
        /\ undoStack = lastStep.before.undoStack
\* A redo has just followed an undo that had changed the current graph.
C9_Witness ==
    /\ lastStep.call = "performRedo"
    /\ lastStep.before # Null
    /\ Len(undoStack) > 0
    /\ currentGraph # Last(undoStack)

\* C10: every local edit with a non-empty delta pushes a snapshot of the
\* graph as it was before the edit onto the undo stack.
C10_EditRecorded ==
    [][StepOf("applyGraphDelta") =>
            /\ Len(undoStack') > 0
            /\ Last(undoStack') = getCurrentGraph]_vars

\* C11: after the entry of a local edit with a non-empty delta the redo stack
\* is empty, so a redo called then (after an undo and that edit) finds
\* nothing to redo.
C11_LinearHistory ==
    [][StepOf("applyGraphDelta") => redoStack' = <<>>]_vars
\* A local edit has just started after an undo had filled the redo stack.
C11_Witness ==
    /\ lastStep.call = "applyGraphDelta"
    /\ lastStep.before.redoStack # <<>>
    /\ redoStack = <<>>

\* C12: the undo stack and the redo stack never hold more than MAX_UNDO
\* snapshots, pushes of redo on the undo stack included; a local edit that
\* finds the undo stack full drops its oldest snapshot and pushes the
\* current graph.
C12_StacksBounded ==
    [][/\ Len(undoStack') <= MAX_UNDO
       /\ Len(redoStack') <= MAX_UNDO
       /\ (StepOf("applyGraphDelta") /\ Len(undoStack) = MAX_UNDO) =>
             undoStack' = Append(Tail(undoStack), currentGraph)]_vars
\* A local edit has just found the undo stack full and dropped the oldest
\* snapshot, which differed from the second oldest.
C12_Witness ==
    /\ lastStep.call = "applyGraphDelta"
    /\ Len(lastStep.before.undoStack) = MAX_UNDO
    /\ Len(undoStack) = MAX_UNDO
    /\ undoStack[1] # lastStep.before.undoStack[1]

\* An undo or redo has started and its cooldown has not elapsed: polling is
\* suppressed, and the undo or redo is still inside pushFullGraphToUI or its
\* timer is pending.
InCooldown ==
    /\ suppressPolling
    /\ PendingPushes > 0 \/ cooldownTimers > 0

\* C13: between the start of an undo or redo and the end of its cooldown no
\* poll replaces the current graph or delivers a delta, a poll whose fetch
\* was already in flight included.
C13_NoPollInCooldown ==
    [][\A p \in PollIds :
        (InCooldown /\ (GateStep(p) \/ BuildStep(p))) =>
            /\ UNCHANGED currentGraph
            /\ ~Delivered(lastStep')]_vars

\* C14: suppression is never permanent: whenever polling is suppressed it is
\* eventually allowed again, the timers firing.
C14_SuppressionClears == suppressPolling ~> ~suppressPolling

\* The activations of loadAndPushGraph whose listing fetch is in flight.
FetchesInFlight == {p \in PollIds : polls[p].pc = "fetch"}

\* C15: at most one listing fetch is in flight at any time, the initial
\* load and the interval polls counted together.
C15_OneFetchInFlight == Cardinality(FetchesInFlight) <= 1

\* The polling loop was started and has been stopped since.
PollingStopped == pollIntervalId = NoRef /\ subscription.count > 0

\* C16: once the polling loop is stopped no poll changes the current graph
\* or the stored fingerprint, be it a poll that was in flight at the stop or
\* the initial load scheduled at subscription.
C16_NoPollAfterStop ==
    [][\A p \in PollIds :
        (PollingStopped /\ (GateStep(p) \/ BuildStep(p))) =>
            UNCHANGED <<currentGraph, lastFileFingerprint>>]_vars

\* The most recently registered callback.
LatestCallback == CallbackOrder[subscription.count]
\* A step that reaches the delivery of a non-empty delta: the end of a local
\* edit, a rebuild with at least one node, the full push of undo/redo.
ProducesDelta ==
    \/ \E e \in EditIds : /\ StepOf("editRequestReturned") \/ StepOf("editRequestFailed")
                          /\ edits[e].pc = "write" /\ edits'[e].pc = "idle"
    \/ \E p \in PollIds : BuildStep(p) /\ Len(BuildGraph(polls[p].files).allDeltas) > 0
    \/ StepOf("pushFullGraphToUI")

\* C17: a delta is delivered to the most recently registered callback only,
\* and as long as that subscriber has not unsubscribed every delta of a
\* poll, a local edit or an undo/redo is delivered to it.
C17_LatestSubscriberOnly ==
    [][/\ Delivered(lastStep') => subscription.count > 0 /\ lastStep'.to = LatestCallback
       /\ (subscription.active /\ ProducesDelta) =>
              Delivered(lastStep') /\ lastStep'.to = LatestCallback]_vars

\* The entries of a batch that saveNodePositions does not ignore.
Effective(graph, cyNodes) ==
    {i \in 1..Len(cyNodes) : IsSome(cyNodes[i].position) /\ cyNodes[i].id \in NodeIds(graph)}
ContentsOf(graph) == [id \in NodeIds(graph) |-> graph.nodes[id].content]

\* C18: saveNodePositions gives every node named by an entry with a position
\* the position of the last such entry and changes nothing else: ignored
\* entries have no effect, the node ids, the contents, both stacks, the
\* stored fingerprint and the requests to the backend stay as they are, and
\* no delta is delivered.
C18_PositionsOnly ==
    [][StepOf("saveNodePositions") =>
            LET cyNodes == lastStep'.input
                eff == Effective(currentGraph, cyNodes)
            IN /\ NodeIds(currentGraph') = NodeIds(currentGraph)
               /\ ContentsOf(currentGraph') = ContentsOf(currentGraph)
               /\ \A id \in NodeIds(currentGraph) :
                     LET named == {i \in eff : cyNodes[i].id = id}
                     IN IF named = {}
                        THEN PositionOf(currentGraph', id) = PositionOf(currentGraph, id)
                        ELSE PositionOf(currentGraph', id) =
                                cyNodes[CHOOSE i \in named : \A j \in named : j <= i].position
               /\ UNCHANGED <<undoStack, redoStack, lastFileFingerprint, edits>>
               /\ ~Delivered(lastStep')]_vars
\* A batch of an ignored entry and an effective one has moved a node.
C18_Witness ==
    /\ lastStep.call = "saveNodePositions"
    /\ Len(lastStep.input) = 2
    /\ Effective(lastStep.before.currentGraph, lastStep.input) = {2}
    /\ currentGraph # lastStep.before.currentGraph

\* The graph side of a local edit at the return of a request of edit e, as
\* it goes on when the request succeeded.
EditGoesOn(e) ==
    /\ UNCHANGED <<currentGraph, undoStack, redoStack>>
    /\ IF edits[e].i < Len(edits[e].delta)
       THEN /\ edits' = [edits EXCEPT ![e].i = edits[e].i + 1]
            /\ ~Delivered(lastStep')
            /\ UNCHANGED lastFileFingerprint
       ELSE /\ edits' = [edits EXCEPT ![e] = IdleEdit]
            /\ lastFileFingerprint' = ""
            /\ IF graphUpdateCallback # NoRef
               THEN lastStep'.to = graphUpdateCallback /\ lastStep'.delta = edits[e].delta
               ELSE ~Delivered(lastStep')

\* C19: a failed write or delete request does not stop a local edit: the
\* delta was applied to the current graph before the first request, and
\* after a failed request the edit goes on to the next request or, after
\* the last one, delivers the delta to the subscriber and resets the
\* fingerprint, exactly as after a request that succeeded.
C19_FailureNeverBlocks ==
    [][\A e \in EditIds :
        /\ (StepOf("editApply") /\ edits[e].pc = "import") =>
               /\ currentGraph' = applyGraphDeltaToGraph(getCurrentGraph, edits[e].delta)
               /\ edits'[e].pc = "write"
        /\ (StepOf("editRequestFailed") /\ edits[e].pc = "write") => EditGoesOn(e)
        /\ (StepOf("editRequestReturned") /\ edits[e].pc = "write") => EditGoesOn(e)]_vars
\* The last request of a two-operation edit failed and the delta was delivered.
C19_Witness ==
    /\ lastStep.call = "editRequestFailed"
    /\ Delivered(lastStep)
    /\ Len(lastStep.delta) = 2
    /\ lastFileFingerprint = ""
    /\ \A e \in EditIds : edits[e] = IdleEdit

\* The poll p ends at a failed fetch.
FetchFailedStep(p) ==
    StepOf("pollFetchFailed") /\ polls[p].pc = "fetch" /\ polls'[p] # polls[p]

\* C20: a poll whose listing fetch fails changes neither the current graph
\* nor the stored fingerprint nor the stacks and delivers nothing; the poll
\* ends there and the interval that starts the next poll is left running.
C20_FailedFetchNoOp ==
    [][\A p \in PollIds : FetchFailedStep(p) =>
        /\ UNCHANGED <<currentGraph, lastFileFingerprint, undoStack, redoStack>>
        /\ UNCHANGED <<graphUpdateCallback, pollIntervalId, suppressPolling>>
        /\ ~Delivered(lastStep')
        /\ polls'[p] = IdlePoll]_vars
\* A fetch has failed with a graph of at least one node loaded and the
\* interval running.
C20_Witness ==
    /\ lastStep.call = "pollFetchFailed"
    /\ currentGraph # Null
    /\ NodeIds(currentGraph) # {}
    /\ lastFileFingerprint # ""
    /\ pollIntervalId # NoRef

\* The operations of a delta on the id, in order.
OpId(op) == IF op.type = "UpsertNode" THEN op.nodeToUpsert.absoluteFilePathIsID ELSE op.nodeId
OpsOn(delta, id) == SelectSeq(delta, LAMBDA op : OpId(op) = id)
\* The entry of id after what the last operation on it says (absent as Null).
EntryOf(graph, id) == IF id \in NodeIds(graph) THEN graph.nodes[id] ELSE Null
EntryAfter(graph, delta, id) ==
    LET ops == OpsOn(delta, id)
    IN IF ops = <<>> THEN EntryOf(graph, id)
       ELSE IF Last(ops).type = "UpsertNode" THEN Last(ops).nodeToUpsert
       ELSE Null
HasUpsert(delta) == \E i \in 1..Len(delta) : delta[i].type = "UpsertNode"
HasDelete(delta) == \E i \in 1..Len(delta) : delta[i].type = "DeleteNode"

\* C21: after a delta of upserts the entry of every upserted id is exactly
\* the node of the last upsert of that id, position included, and every
\* other entry is as before.
C21_UpsertReplaces ==
    (Len(fnResult) >= 1 /\ ~HasDelete(fnArgs.first)) =>
        /\ NodeIds(fnResult[1]) =
              NodeIds(fnArgs.graph) \cup {OpId(fnArgs.first[i]) : i \in 1..Len(fnArgs.first)}
        /\ \A id \in NodeIds(fnResult[1]) :
              fnResult[1].nodes[id] = EntryAfter(fnArgs.graph, fnArgs.first, id)
\* Two upserts of a stored node were applied, the last without position.
C21_Witness ==
    /\ Len(fnResult) >= 1
    /\ Len(fnArgs.first) = 2
    /\ \A i \in 1..2 : /\ fnArgs.first[i].type = "UpsertNode"
                        /\ OpId(fnArgs.first[i]) = PathOrder[1]
    /\ fnArgs.first[1] # fnArgs.first[2]
    /\ PathOrder[1] \in NodeIds(fnArgs.graph)
    /\ IsSome(PositionOf(fnArgs.graph, PathOrder[1]))
    /\ ~IsSome(PositionOf(fnResult[1], PathOrder[1]))

\* C22: a delta of one DeleteNode returns the graph as it was when the id is
\* absent, and the graph without exactly that node when it is present.
C22_DeleteRule ==
    (Len(fnResult) >= 1 /\ Len(fnArgs.first) = 1 /\ HasDelete(fnArgs.first)) =>
        LET x == fnArgs.first[1].nodeId
        IN IF x \notin NodeIds(fnArgs.graph)
           THEN fnResult[1] = fnArgs.graph
           ELSE /\ NodeIds(fnResult[1]) = NodeIds(fnArgs.graph) \ {x}
                /\ \A id \in NodeIds(fnResult[1]) : fnResult[1].nodes[id] = fnArgs.graph.nodes[id]
\* A delete of an id that the non-empty graph does not hold was applied.
C22_Witness ==
    /\ Len(fnResult) >= 1
    /\ fnArgs.first = <<DeleteNode(PathOrder[2])>>
    /\ NodeIds(fnArgs.graph) = {PathOrder[1]}
    /\ fnResult[1] = fnArgs.graph

\* C23: applying a first delta and then a second one to the result gives
\* the graph that applying their concatenation gives.
C23_FoldCorrect ==
    Len(fnResult) = 2 =>
        fnResult[2] = applyGraphDeltaToGraph(fnArgs.graph, fnArgs.first \o fnArgs.second)
\* Both batches act on the same id, the first with an upsert and a delete.
C23_Witness ==
    /\ Len(fnResult) = 2
    /\ Len(fnArgs.first) = 2 /\ Len(fnArgs.second) = 1
    /\ HasUpsert(fnArgs.first) /\ HasDelete(fnArgs.first)
    /\ \A i \in 1..2 : OpId(fnArgs.first[i]) = OpId(fnArgs.second[1])
    /\ fnResult[2] # fnResult[1]

\* C24: applying the empty delta to the current graph gives that graph, and
\* applyGraphDelta called with an empty delta changes neither the current
\* graph nor a stack nor the stored fingerprint, issues no request and
\* delivers nothing.
C24_EmptyDeltaIdentity ==
    [][StepOf("applyGraphDeltaEmpty") =>
        /\ applyGraphDeltaToGraph(getCurrentGraph, <<>>) = getCurrentGraph
        /\ UNCHANGED <<currentGraph, undoStack, redoStack, lastFileFingerprint>>
        /\ UNCHANGED <<edits, graphUpdateCallback, suppressPolling>>
        /\ ~Delivered(lastStep')]_vars
\* An empty delta came in with a graph loaded, a subscriber registered and
\* a redo pending.
C24_Witness ==
    /\ lastStep.call = "applyGraphDeltaEmpty"
    /\ currentGraph # Null
    /\ graphUpdateCallback # NoRef
    /\ redoStack # <<>>

\* C25: the rebuild of a non-empty listing yields one operation per file, in
\* listing order, each the upsert of that file's node with its content, and
\* applying the concatenated delta to an empty graph gives the graph the
\* rebuild produced before the position merge.
C25_DeltaRebuildsGraph ==
    \A k \in 1..Len(fnResult) :
        (fnArgs.files # <<>>) =>
            LET built == fnResult[k]
            IN /\ Len(built.allDeltas) = Len(fnArgs.files)
               /\ \A i \in 1..Len(fnArgs.files) :
                     /\ built.allDeltas[i].type = "UpsertNode"
                     /\ OpId(built.allDeltas[i]) = fnArgs.files[i].path
                     /\ built.allDeltas[i].nodeToUpsert.content = fnArgs.files[i].content
               /\ applyGraphDeltaToGraph(createEmptyGraph, built.allDeltas) = built.graph
\* A listing of two files, the second referring to the first, has been rebuilt.
C25_Witness ==
    /\ Len(fnResult) >= 1
    /\ Len(fnArgs.files) = 2
    /\ NodeIds(fnResult[1].graph) = Paths
    /\ fnResult[1].graph.nodes[PathOrder[2]].outgoingEdges = {PathOrder[1]}

\* The content of the file refers to the node of the path.
RefersTo(file, path) == Contains(file.content, "[[" \o LinkName(path) \o "]]")
\* The graph holds the edge from -> to.
HasEdge(graph, from, to) == from \in NodeIds(graph) /\ to \in graph.nodes[from].outgoingEdges

\* C26: when the listing places a file that refers to a node before the file
\* of that node, the edge is absent from the graph of the first rebuild pass
\* and present in the graph of the second pass over the same listing.
C26_ForwardReferenceSecondPass ==
    \A i, j \in 1..Len(fnArgs.files) :
        (i < j /\ RefersTo(fnArgs.files[i], fnArgs.files[j].path)) =>
            /\ Len(fnResult) >= 1 =>
                  ~HasEdge(fnResult[1].graph, fnArgs.files[i].path, fnArgs.files[j].path)
            /\ Len(fnResult) >= 2 =>
                  HasEdge(fnResult[2].graph, fnArgs.files[i].path, fnArgs.files[j].path)

\* C27: when the listing places the file of a node before a file that
\* refers to it, the graph of one rebuild pass holds both nodes and the edge
\* from the referring node; an edge is there only if its target was in the
\* graph when the referring file was processed.
C27_BackwardReferenceOnePass ==
    \A k \in 1..Len(fnResult) : \A i, j \in 1..Len(fnArgs.files) :
        LET from == fnArgs.files[j].path
            to == fnArgs.files[i].path
        IN /\ (i < j /\ RefersTo(fnArgs.files[j], to)) =>
                /\ {from, to} \subseteq NodeIds(fnResult[k].graph)
                /\ HasEdge(fnResult[k].graph, from, to)
           /\ HasEdge(fnResult[k].graph, from, to) => (i < j /\ RefersTo(fnArgs.files[j], to))
\* The example of the spec: /a.md, then /b.md with "# B [[a]]".
C27_Witness ==
    /\ Len(fnResult) >= 1
    /\ fnArgs.files = <<[path |-> PathOrder[1], content |-> "x"],
                        [path |-> PathOrder[2], content |-> "# B [[a]]"]>>
    /\ HasEdge(fnResult[1].graph, PathOrder[2], PathOrder[1])
    /\ ~HasEdge(fnResult[1].graph, PathOrder[1], PathOrder[2])

EdgesOf(graph) == [id \in NodeIds(graph) |-> graph.nodes[id].outgoingEdges]

DanglingEdges(graph) ==
    {<<from, to>> \in NodeIds(graph) \X (UNION {graph.nodes[id].outgoingEdges : id \in NodeIds(graph)}) :
        to \in graph.nodes[from].outgoingEdges /\ to \notin NodeIds(graph)}

\* C29: every edge of the current graph points to a node of the current
\* graph, after rebuilds of the listed files and after local edits, undos
\* and redos.
C29_NoDanglingEdges ==
    currentGraph # Null => DanglingEdges(currentGraph) = {}

\* No poll, local edit or undo/redo is in flight and no initial load is due.
Quiescent ==
    /\ \A p \in PollIds : polls[p].pc = "idle"
    /\ \A e \in EditIds : edits[e].pc = "idle"
    /\ \A u \in PushIds : pushes[u].pc = "idle"
    /\ initialLoadTimers = 0

\* C30: whenever nothing is in flight after a poll has rebuilt the graph
\* and delivered its delta, the node ids a subscriber gets by replaying, in
\* order and from nothing, every delta delivered since its subscription are
\* the node ids of the current graph: a node that a later listing no longer
\* holds has been taken away by a DeleteNode.
C30_DeltasReplayable ==
    (/\ uiReplay.on /\ graphUpdateCallback # NoRef /\ Quiescent
     /\ lastStep.call = "pollBuild" /\ Delivered(lastStep)) =>
        uiReplay.ids = NodeIds(getCurrentGraph)


UpsertsAgree(delta, graph) ==
    \A i \in 1..Len(delta) :
        delta[i].type = "UpsertNode" =>
            LET node == delta[i].nodeToUpsert
            IN /\ node.absoluteFilePathIsID \in NodeIds(graph)
               /\ graph.nodes[node.absoluteFilePathIsID] = node

\* C37: the delta that a poll delivers agrees with the graph that the poll
\* stores: every UpsertNode of the delta carries the node, position
\* included, that the current graph holds under that id after the poll.
C37_DeliveredAsStored ==
    [][\A p \in PollIds :
        (BuildStep(p) /\ Delivered(lastStep')) =>
            UpsertsAgree(lastStep'.delta, currentGraph')]_vars

\* C38: calling the unsubscribe function of a subscriber that was replaced
\* leaves the registered callback in place and polling running.
C38_StaleUnsubscribeHarmless ==
    [][(StepOf("staleUnsubscribe") /\ lastStep'.call # lastStep.call) =>
           UNCHANGED <<graphUpdateCallback, pollIntervalId>>]_vars

\* C39: a cooldown timer that fires while a later undo or redo is still in
\* its call of pushFullGraphToUI or has its own timer pending leaves polling
\* suppressed: suppression ends with the timer of the latest undo or redo.
C39_FullCooldown ==
    [][(StepOf("cooldownFire") /\ cooldownTimers' # cooldownTimers
          /\ (cooldownTimers' > 0 \/ PendingPushes > 0)) =>
           suppressPolling']_vars

\* C34: a poll that fails after the fingerprint gate, while it loads or runs
\* the builder and the applier, leaves the stored fingerprint as it was
\* before its gate, which was not the fingerprint of its listing: the next
\* poll of the same listing does not skip it as unchanged.  Stated for a
\* poll that fails while no other poll is in flight.
C34_FailedBuildKeepsFingerprint ==
    [][\A p \in PollIds :
        (/\ StepOf("pollBuildFailed") /\ polls[p].pc = "import" /\ polls'[p] # polls[p]
         /\ \A q \in PollIds \ {p} : polls[q].pc = "idle") =>
            lastFileFingerprint' # Fingerprint(polls[p].files)]_vars

(***************************************************************************)
(* parseKeyPointsFromJson (pure/screen-recording): the key points of an    *)
(* LLM response.  The JSON texts are those of a bounded set of values;     *)
(* JSON.parse is the inverse of JSON.stringify on them and throws on any   *)
(* other text.                                                             *)
(***************************************************************************)
\* Entries of the largest array.
MaxItems == 2
\* Values of a property: absent, null, a number, a string.
Undefined == [t |-> "undefined", n |-> 0, s |-> ""]
JsonNumber(n) == [t |-> "number", n |-> n, s |-> ""]
JsonString(s) == [t |-> "string", n |-> 0, s |-> s]
\* Array entries: null, a number, or an object with the two properties.  A
\* property read on a number gives undefined.
JsonItems ==
    LET TimeSecondsOptions ==
            {Undefined, JsonNumber(-1), JsonNumber(0), JsonNumber(3), JsonString("3")}
        ReasonOptions ==
            {Undefined, JsonString(""), JsonString(" "), JsonString(" ok "), JsonNumber(0)}
    IN {[t |-> "null", n |-> 0, timeSeconds |-> Undefined, reason |-> Undefined],
        [t |-> "number", n |-> 5, timeSeconds |-> Undefined, reason |-> Undefined]}
       \cup {[t |-> "object", n |-> 0, timeSeconds |-> ts, reason |-> r] :
                 ts \in TimeSecondsOptions, r \in ReasonOptions}
\* Roots: an array, or {} / null / "string".
JsonRoots ==
    {[t |-> "array", items |-> items] :
        items \in UNION {[1..n -> JsonItems] : n \in 0..MaxItems}}
    \cup {[t |-> k, items |-> <<>>] : k \in {"object", "null", "string"}}

RECURSIVE JoinWith(_, _)
JoinWith(parts, sep) ==
    IF Len(parts) = 0 THEN ""
    ELSE IF Len(parts) = 1 THEN parts[1]
    ELSE parts[1] \o sep \o JoinWith(Tail(parts), sep)

\* JSON.stringify: a property that is undefined is left out.
JSONstringify(root) ==
    LET ScalarText(v) ==
            CASE v.t = "null" -> "null"
              [] v.t = "number" -> ToString(v.n)
              [] v.t = "string" -> "\"" \o v.s \o "\""
        PropertyText(key, v) ==
            IF v.t = "undefined" THEN <<>> ELSE <<"\"" \o key \o "\":" \o ScalarText(v)>>
        ItemText(item) ==
            IF item.t = "object"
            THEN "{" \o JoinWith(PropertyText("timeSeconds", item.timeSeconds)
                                 \o PropertyText("reason", item.reason), ",") \o "}"
            ELSE ScalarText([t |-> item.t, n |-> item.n, s |-> ""])
    IN CASE root.t = "array" ->
                "[" \o JoinWith([i \in 1..Len(root.items) |-> ItemText(root.items[i])], ",")
                    \o "]"
         [] root.t = "object" -> "{}"
         [] root.t = "null" -> "null"
         [] root.t = "string" -> "\"string\""

\* The texts handed to the parser: the JSON of the roots and texts that are no JSON.
JsonTexts == {JSONstringify(root) : root \in JsonRoots} \cup {"not json", "", "{"}

\* JSON.parse: the value of the text, or a SyntaxError.
JSONparse(text) ==
    LET values == {root \in JsonRoots : JSONstringify(root) = text}
    IN IF values = {} THEN [threw |-> TRUE, value |-> [t |-> "null", items |-> <<>>]]
       ELSE [threw |-> FALSE, value |-> CHOOSE root \in values : TRUE]

\* String.prototype.trim for blanks.
RECURSIVE Trim(_)
Trim(s) ==
    IF Len(s) = 0 THEN s
    ELSE IF SubSeq(s, 1, 1) = " " THEN Trim(SubSeq(s, 2, Len(s)))
    ELSE IF SubSeq(s, Len(s), Len(s)) = " " THEN Trim(SubSeq(s, 1, Len(s) - 1))
    ELSE s

\* The loop over the parsed array: reading a property of null throws a TypeError.
RECURSIVE KeyPointsLoop(_, _)
KeyPointsLoop(items, result) ==
    IF items = <<>> THEN [threw |-> FALSE, value |-> result]
    ELSE LET raw == Head(items)
         IN IF raw.t = "null" THEN [threw |-> TRUE, value |-> <<>>]
            ELSE LET timeSeconds == IF raw.timeSeconds.t = "number"
                                    THEN raw.timeSeconds ELSE Undefined
                     reason == IF raw.reason.t = "string"
                               THEN JsonString(Trim(raw.reason.s)) ELSE Undefined
                 IN IF /\ timeSeconds # Undefined /\ timeSeconds.n >= 0
                       /\ reason # Undefined /\ Len(reason.s) > 0
                    THEN KeyPointsLoop(Tail(items),
                             Append(result, [timeSeconds |-> timeSeconds.n, reason |-> reason.s]))
                    ELSE KeyPointsLoop(Tail(items), result)

\* try { ... } catch { return [] }
parseKeyPointsFromJson(json) ==
    LET parsed == JSONparse(json)
    IN IF parsed.threw THEN [threw |-> FALSE, value |-> <<>>]
       ELSE IF parsed.value.t # "array" THEN [threw |-> FALSE, value |-> <<>>]
       ELSE LET looped == KeyPointsLoop(parsed.value.items, <<>>)
            IN IF looped.threw THEN [threw |-> FALSE, value |-> <<>>] ELSE looped

InitKeyPoints ==
    /\ InitModule
    /\ polls = [p \in PollIds |-> IdlePoll]
    /\ edits = [e \in EditIds |-> IdleEdit]
    /\ pushes = [u \in PushIds |-> IdlePush]
    /\ opsLeft = 0
    /\ fnArgs \in [json : JsonTexts]
    /\ fnResult = <<>>

ParseKeyPoints ==
    /\ fnResult = <<>>
    /\ fnResult' = <<parseKeyPointsFromJson(fnArgs.json)>>
    /\ UNCHANGED <<moduleVars, procVars, timerVars, lastStep, opsLeft, histVars, fnArgs, envVars>>

SpecKeyPoints == InitKeyPoints /\ [][ParseKeyPoints]_vars

\* The entries of the array of the text that have a numeric timeSeconds >= 0
\* and a reason string that is not empty after trimming, in input order, the
\* reason trimmed; none if the text is no JSON or its root no array.
KeyPointEntries(json) ==
    LET parsed == JSONparse(json)
        IsKeyPoint(item) ==
            /\ item.t = "object"
            /\ item.timeSeconds.t = "number" /\ item.timeSeconds.n >= 0
            /\ item.reason.t = "string" /\ Trim(item.reason.s) # ""
    IN IF parsed.threw \/ parsed.value.t # "array" THEN <<>>
       ELSE LET kept == SelectSeq(parsed.value.items, IsKeyPoint)
            IN [i \in 1..Len(kept) |->
                   [timeSeconds |-> kept[i].timeSeconds.n, reason |-> Trim(kept[i].reason.s)]]

\* C33: parseKeyPointsFromJson does not throw, and it returns, in input
\* order, exactly the entries of the array that have a numeric timeSeconds
\* >= 0 and a reason string that is not empty after trimming; a text that is
\* no JSON, or whose root is no array, gives the empty list.
C33_KeyPointsFiltered ==
    \A k \in 1..Len(fnResult) :
        /\ ~fnResult[k].threw
        /\ fnResult[k].value = KeyPointEntries(fnArgs.json)

\* C35: the snapshot that a local edit pushed on the undo stack at its entry
\* is the graph to which the edit's delta is applied after the imports,
\* whatever position saves, polls, undos or redos ran in between.
C35_SnapshotIsEditedGraph ==
    [][\A e \in EditIds :
        (/\ StepOf("editApply") /\ edits[e].pc = "import" /\ edits'[e] # edits[e]
         /\ edits[e].snapshot # Null) =>
            edits[e].snapshot = currentGraph]_vars

(***************************************************************************)
(* The program with its backend: the files change only through the write   *)
(* and delete requests of local edits, GET /files lists them as they are   *)
(* when it answers, and once the calls from outside are used up the        *)
(* interval keeps ticking.                                                 *)
(***************************************************************************)
\* Calls from outside in a behaviour of the program with its backend.
MaxDiskOps == 3
\* The files at the start.
DiskListings == {<<>>, <<[path |-> PathOrder[1], content |-> "x"]>>}

InitDisk ==
    /\ currentGraph = Null
    /\ graphUpdateCallback = NoRef
    /\ pollIntervalId = NoRef
    /\ lastFileFingerprint = ""
    /\ undoStack = <<>>
    /\ redoStack = <<>>
    /\ suppressPolling = FALSE
    /\ initialLoadTimers = 0
    /\ cooldownTimers = 0
    /\ lastStep = [call |-> "init", to |-> NoRef, delta |-> <<>>, before |-> Null, input |-> <<>>]
    /\ editSincePoll = FALSE
    /\ subscription = [count |-> 0, active |-> FALSE]
    /\ polls = [p \in PollIds |-> IdlePoll]
    /\ edits = [e \in EditIds |-> IdleEdit]
    /\ pushes = [u \in PushIds |-> IdlePush]
    /\ opsLeft = MaxDiskOps
    /\ fnArgs = <<>>
    /\ fnResult = <<>>
    /\ backendListings = {}
    /\ uiReplay = [on |-> FALSE, ids |-> {}]
    /\ disk \in [on : {TRUE}, files : DiskListings]

\* A tick of the setInterval of startGraphPolling after the last call from outside.
SettledTick(p) ==
    /\ opsLeft = 0
    /\ pollIntervalId # NoRef
    /\ FreePoll(p)
    /\ ~suppressPolling
    /\ loadAndPushGraph(p)
    /\ Step("intervalTick")
    /\ UNCHANGED <<moduleVars, edits, pushes, timerVars, opsLeft, subscription, fnVars, envVars>>

NextDisk ==
    \/ Next
    \/ \E p \in PollIds : SettledTick(p)

\* The scheduling: a timer that is set fires, the interval ticks, a request
\* is answered, and a continuation whose promise is settled runs.
FairnessDisk ==
    /\ WF_vars(CooldownFire)
    /\ \A u \in PushIds : WF_vars(PushFullGraph(u))
    /\ \A p \in PollIds :
          /\ WF_vars(InitialLoad(p))
          /\ WF_vars(IntervalTick(p))
          /\ WF_vars(SettledTick(p))
          /\ WF_vars(PollFetchFailed(p) \/ \E files \in Served : PollResponse(p, files))
          /\ WF_vars(PollGate(p))
          /\ WF_vars(PollBuild(p) \/ PollBuildFailed(p))
    /\ \A e \in EditIds :
          /\ WF_vars(EditApply(e))
          /\ WF_vars(\E outcome \in RequestOutcomes : EditRequestReturned(e, outcome))

SpecDisk == InitDisk /\ [][NextDisk]_vars /\ FairnessDisk

\* The node ids and contents of the current graph are those of the files.
DiskConverged ==
    ContentsOf(getCurrentGraph) =
        [path \in ListedPaths(disk.files) |-> ContentOf(disk.files, path)]
\* Polling runs and nothing fails.
PollingRuns ==
    /\ pollIntervalId # NoRef
    /\ ~suppressPolling
    /\ lastStep.call \notin {"pollFetchFailed", "pollBuildFailed"}

\* C31: if from some point on the files no longer change, no local edit,
\* undo, redo or position save is called, polling runs and no fetch or
\* rebuild fails, then eventually the node ids and contents of the current
\* graph are those of the listing, and stay so.
C31_ConvergesWithDisk ==
    (<>[](PollingRuns /\ opsLeft = 0)) => <>[]DiskConverged

\* Polling is not suppressed, no undo or redo is in its cooldown and no local
\* edit is in flight.
SuppressionCleared ==
    /\ ~suppressPolling /\ cooldownTimers = 0 /\ PendingPushes = 0
    /\ \A e \in EditIds : edits[e].pc = "idle"

\* C36: with files that change only through the requests of this program,
\* the node ids and contents that an undo restored (the redo stack holds
\* what it undid) are still those of the current graph after a poll that
\* lists the files as they are and is processed once suppression has
\* cleared.
C36_UndoDurable ==
    [][\A p \in PollIds :
        (/\ disk.on /\ redoStack # <<>> /\ SuppressionCleared
         /\ polls[p].files = disk.files
         /\ GateStep(p) \/ BuildStep(p)) =>
            ContentsOf(GraphOrEmpty(currentGraph')) = ContentsOf(getCurrentGraph)]_vars

\* The delta says that the id is there (its last operation on the id is an
\* upsert), that it is gone (a delete), or nothing ("unedited").
EditedTo(delta, id) ==
    LET ops == OpsOn(delta, id)
    IN IF ops = <<>> THEN "unedited"
       ELSE IF Last(ops).type = "UpsertNode" THEN "there" ELSE "gone"

\* C40: a poll that rebuilds the graph right after a local edit has
\* delivered its delta, from a listing fetched before a write of the edit
\* reached the files, leaves in the current graph every node that the edit
\* upserted and none that it deleted.
C40_NoLostEdit ==
    [][\A p \in PollIds :
        (/\ disk.on /\ BuildStep(p)
         /\ lastStep.call = "editRequestReturned" /\ Delivered(lastStep)
         /\ polls[p].files # disk.files) =>
            \A id \in Paths :
                /\ EditedTo(lastStep.delta, id) = "there" => id \in NodeIds(currentGraph')
                /\ EditedTo(lastStep.delta, id) = "gone" => id \notin NodeIds(currentGraph')]_vars

====
